---- MODULE Spec2Model ----
(***************************************************************************)
(* kdedisplayprofile: saving the live KDE display arrangement reported by  *)
(* `kscreen-doctor --json` as a profile file, and loading a profile back   *)
(* as a list of kscreen-doctor directives.                                 *)
(*                                                                         *)
(* Two parts:                                                              *)
(*   - the data path: SaveProfileCmd.Run and LoadProfileCmd.Run as whole   *)
(*     operations over the live inventory and the profile file;            *)
(*   - the inventory query: currentScreenSetup as three concurrent         *)
(*     processes (caller, kscreen-doctor subprocess, decode goroutine)     *)
(*     that share one bounded pipe.                                        *)
(*                                                                         *)
(* Representation of the numeric types:                                    *)
(*   refresh rates (float64)  integers counting 1/RateUnit Hz; every such  *)
(*                            value and every difference of two of them is *)
(*                            an exact float64, so the arithmetic below is *)
(*                            the arithmetic the program performs;         *)
(*   scales (float64)         integers counting 10^-ScaleDigits;           *)
(*   mode identifiers         positive integers, 0 standing for an         *)
(*                            identifier that no mode carries.             *)
(***************************************************************************)
EXTENDS Integers, Sequences, FiniteSets, TLC

VARIABLES
    inventory,    \* the live outputs kscreen-doctor reports (KScreenDoctorResult.Outputs)
    file,         \* the profile file: NoFile, or the JSON document written by save
    cmd,          \* the last subcommand run: "none", "save" or "load"
    err,          \* the error the last subcommand returned
    args,         \* the directives the last load handed to kscreen-doctor
    applied,      \* TRUE iff the last load invoked kscreen-doctor with args
    run,          \* inventory query: the scenario (variant, subprocess behaviour)
    procPc,       \* subprocess: "notstarted", "running", "exited"
    written,      \* chunks the subprocess has written so far
    pipe,         \* chunks buffered in the stdout pipe
    readClosed,   \* the parent's read end of the pipe is closed
    decPc,        \* decode goroutine: "decoding", "assigned", "done"
    consumed,     \* chunks the decoder has read
    decodeError,  \* the captured variable decodeError
    result,       \* the captured variable result
    callerPc,     \* currentScreenSetup: "run", "wait", "wgwait", "check", "returned"
    ret           \* what currentScreenSetup returned

dataVars == <<inventory, file, cmd, err, args, applied>>
queryVars == <<run, procPc, written, pipe, readClosed, decPc, consumed,
               decodeError, result, callerPc, ret>>
vars == <<inventory, file, cmd, err, args, applied,
          run, procPc, written, pipe, readClosed, decPc, consumed,
          decodeError, result, callerPc, ret>>

----------------------------------------------------------------------------
(* Bounds of the model.                                                    *)

MaxOutputs == 3
MaxScreens == 2
MaxModes == 3
MaxChunks == 3
PipeCap == 1

(* Representation constants.                                               *)

RateUnit == 2
ScaleDigits == 6

----------------------------------------------------------------------------
(* Helpers.                                                                *)

Range(s) == {s[i] : i \in DOMAIN s}

Abs(x) == IF x < 0 THEN -x ELSE x

SetMin(S) == CHOOSE x \in S : \A y \in S : x <= y

SetMax(S) == CHOOSE x \in S : \A y \in S : y <= x

SeqsUpTo(S, n) == UNION {[1..k -> S] : k \in 0..n}

Perms(S) == {s \in [1..Cardinality(S) -> S] : Range(s) = S}

RECURSIVE Flatten(_)
Flatten(ss) == IF ss = <<>> THEN <<>> ELSE Head(ss) \o Flatten(Tail(ss))

----------------------------------------------------------------------------
(* Values.                                                                 *)

NoFile == [exists |-> FALSE]
Null == <<"null">>
Array(elements) == <<"array", elements>>

NoError == [kind |-> "none", output |-> ""]
Error(kind, output) == [kind |-> kind, output |-> output]

\* int(x) for a float64 x = d / RateUnit: truncation toward zero.
IntOfFloat(d) == IF d >= 0 THEN d \div RateUnit ELSE -((-d) \div RateUnit)

----------------------------------------------------------------------------
(* slices.SortFunc on at most 12 elements: insertion sort with cmp.        *)
(* cmp is a function on pairs of elements.                                 *)

Swap(data, i, j) == [data EXCEPT ![i] = data[j], ![j] = data[i]]

RECURSIVE insertionSortInner(_, _, _)
insertionSortInner(data, j, cmp) ==
    IF j > 1 /\ cmp[<<data[j], data[j - 1]>>] < 0
    THEN insertionSortInner(Swap(data, j, j - 1), j - 1, cmp)
    ELSE data

RECURSIVE insertionSortFrom(_, _, _)
insertionSortFrom(data, i, cmp) ==
    IF i > Len(data) THEN data
    ELSE insertionSortFrom(insertionSortInner(data, i, cmp), i + 1, cmp)

SortFunc(data, cmp) == insertionSortFrom(data, 2, cmp)

----------------------------------------------------------------------------
(* encoding/json on a Profile: a nil Screens slice is written as null and  *)
(* null is read back as a nil slice.                                       *)

Marshal(profile) ==
    [screens |-> IF profile.screens = <<>> THEN Null ELSE Array(profile.screens)]

Unmarshal(doc) ==
    [screens |-> IF doc.screens = Null THEN <<>> ELSE doc.screens[2]]

----------------------------------------------------------------------------
(* SaveProfileCmd.Run                                                      *)

PriorityCmpReversed(a, b) == b.priority - a.priority

PriorityCmp(a, b) == a.priority - b.priority

SortByPriority(outputs) ==
    SortFunc(outputs,
             [p \in Range(outputs) \X Range(outputs) |-> PriorityCmp(p[1], p[2])])

\* The loop over output.Modes: the first mode whose Id is CurrentModeId
\* sets screen.RefreshRate, which is otherwise left at its zero value.
CurrentRefreshRate(output) ==
    LET hits == {i \in DOMAIN output.modes :
                     output.modes[i].id = output.currentModeId}
    IN IF hits = {} THEN 0 ELSE output.modes[SetMin(hits)].refreshRate

ProjectScreen(output) ==
    [name |-> output.name,
     size |-> output.size,
     position |-> output.pos,
     scale |-> output.scale,
     refreshRate |-> CurrentRefreshRate(output)]

RefreshRateUndeterminedNever(screen) == FALSE

RefreshRateUndetermined(screen) == screen.refreshRate = 0

RECURSIVE ExtractFrom(_, _, _)
ExtractFrom(outputs, i, screens) ==
    IF i > Len(outputs) THEN [err |-> NoError, screens |-> screens]
    ELSE IF ~outputs[i].enabled THEN ExtractFrom(outputs, i + 1, screens)
    ELSE LET screen == ProjectScreen(outputs[i])
         IN IF RefreshRateUndetermined(screen)
            THEN [err |-> Error("integrity", outputs[i].name), screens |-> <<>>]
            ELSE ExtractFrom(outputs, i + 1, Append(screens, screen))

\* q is the outcome of currentScreenSetup: "ok" (the inventory) or "error".
SaveOutcome(q, outputs) ==
    IF q # "ok" THEN [err |-> Error("query", ""), screens |-> <<>>]
    ELSE ExtractFrom(SortByPriority(outputs), 1, <<>>)

QueryOutcomes == {"ok", "error"}

SaveRun ==
    \E q \in QueryOutcomes :
        LET r == SaveOutcome(q, inventory)
        IN /\ file' = IF r.err.kind = "none"
                      THEN Marshal([screens |-> r.screens]) ELSE file
           /\ cmd' = "save"
           /\ err' = r.err
           /\ args' = <<>>
           /\ applied' = FALSE
           /\ UNCHANGED inventory
           /\ UNCHANGED queryVars

----------------------------------------------------------------------------
(* LoadProfileCmd.Run                                                      *)

\* lo.Associate: a later output of the same name replaces an earlier one.
OutputByName(outputs) ==
    [n \in {outputs[i].name : i \in DOMAIN outputs} |->
        outputs[SetMax({i \in DOMAIN outputs : outputs[i].name = n})]]

PotentialModes(output, desiredScreen) ==
    LET SameSize(mode) == mode.size = desiredScreen.size
    IN SelectSeq(output.modes, SameSize)

RateCmp(desiredScreen, a, b) ==
    LET diffA == Abs(desiredScreen.refreshRate - a.refreshRate)
        diffB == Abs(desiredScreen.refreshRate - b.refreshRate)
    IN IntOfFloat(diffA - diffB)

SortByRate(potentialModes, desiredScreen) ==
    SortFunc(potentialModes,
             [p \in Range(potentialModes) \X Range(potentialModes) |->
                 RateCmp(desiredScreen, p[1], p[2])])

\* fmt.Sprintf("%d,%d", x, y)
FormatPosition(pos) == <<pos.x, ",", pos.y>>

\* fmt.Sprintf("%f", scale): the integer part, the point, six fraction digits.
FormatScale(scale) ==
    <<scale \div (10 ^ ScaleDigits), ".", scale % (10 ^ ScaleDigits)>>

TargetOutput(desiredScreen, output) ==
    [name |-> desiredScreen.name,
     mode |-> SortByRate(PotentialModes(output, desiredScreen), desiredScreen)[1].name,
     position |-> FormatPosition(desiredScreen.position),
     scale |-> FormatScale(desiredScreen.scale)]

RECURSIVE ResolveFromSkipping(_, _, _, _)
ResolveFromSkipping(screens, i, targetOutputs, outputByName) ==
    IF i > Len(screens) THEN [err |-> NoError, targetOutputs |-> targetOutputs]
    ELSE IF screens[i].name \notin DOMAIN outputByName
         THEN ResolveFromSkipping(screens, i + 1, targetOutputs, outputByName)
    ELSE IF PotentialModes(outputByName[screens[i].name], screens[i]) = <<>>
         THEN ResolveFromSkipping(screens, i + 1, targetOutputs, outputByName)
    ELSE ResolveFromSkipping(screens, i + 1,
             Append(targetOutputs,
                    TargetOutput(screens[i], outputByName[screens[i].name])),
             outputByName)

RECURSIVE ResolveFrom(_, _, _, _)
ResolveFrom(screens, i, targetOutputs, outputByName) ==
    IF i > Len(screens) THEN [err |-> NoError, targetOutputs |-> targetOutputs]
    ELSE IF screens[i].name \notin DOMAIN outputByName
         THEN [err |-> Error("missing", screens[i].name), targetOutputs |-> <<>>]
    ELSE IF PotentialModes(outputByName[screens[i].name], screens[i]) = <<>>
         THEN [err |-> Error("nomode", screens[i].name), targetOutputs |-> <<>>]
    ELSE ResolveFrom(screens, i + 1,
             Append(targetOutputs,
                    TargetOutput(screens[i], outputByName[screens[i].name])),
             outputByName)

\* Everything up to the end of the loop over profile.Screens.
LoadOutcome(doc, q, outputs) ==
    IF doc = NoFile THEN [err |-> Error("read", ""), targetOutputs |-> <<>>]
    ELSE IF q # "ok" THEN [err |-> Error("query", ""), targetOutputs |-> <<>>]
    ELSE ResolveFrom(Unmarshal(doc).screens, 1, <<>>, OutputByName(outputs))

DisabledOutputNamesAll(outputByName, targetOutputs) == DOMAIN outputByName

DisabledOutputNames(outputByName, targetOutputs) ==
    {n \in DOMAIN outputByName :
        n \notin {targetOutputs[i].name : i \in DOMAIN targetOutputs}}

DisableDirective(outputName) == <<"output", outputName, "disable">>

EnableDirectives(output) ==
    << <<"output", output.name, "enable">>,
       <<"output", output.name, "mode", output.mode>>,
       <<"output", output.name, "position", output.position>>,
       <<"output", output.name, "scale", output.scale>> >>

BuildArgsEnableFirst(disabledOutputs, targetOutputs) ==
    Flatten([i \in DOMAIN targetOutputs |-> EnableDirectives(targetOutputs[i])])
    \o [i \in DOMAIN disabledOutputs |-> DisableDirective(disabledOutputs[i])]

BuildArgs(disabledOutputs, targetOutputs) ==
    [i \in DOMAIN disabledOutputs |-> DisableDirective(disabledOutputs[i])]
    \o Flatten([i \in DOMAIN targetOutputs |-> EnableDirectives(targetOutputs[i])])

\* disabledOutputs is filled while ranging over a map: any order.
LoadRun ==
    \E q \in QueryOutcomes, toolOk \in BOOLEAN :
        LET r == LoadOutcome(file, q, inventory)
        IN /\ cmd' = "load"
           /\ IF r.err.kind # "none"
              THEN /\ err' = r.err
                   /\ args' = <<>>
                   /\ applied' = FALSE
              ELSE \E disabledOutputs \in
                        Perms(DisabledOutputNames(OutputByName(inventory),
                                                  r.targetOutputs)) :
                       /\ args' = BuildArgs(disabledOutputs, r.targetOutputs)
                       /\ applied' = TRUE
                       /\ err' = IF toolOk THEN NoError ELSE Error("apply", "")
           /\ UNCHANGED <<inventory, file>>
           /\ UNCHANGED queryVars

----------------------------------------------------------------------------
(* currentScreenSetup: the caller, the kscreen-doctor subprocess and the   *)
(* decode goroutine.  Output is counted in chunks; the pipe holds PipeCap  *)
(* of them.  run is the scenario: which variant of the function runs       *)
(* (hasWait: with wg.Wait() before decodeError is read, or without), how   *)
(* many chunks the subprocess writes (total), how many the decoder must    *)
(* read before Decode returns (docLen: the end of the first JSON value, or *)
(* the place of the first syntax error), whether that value is well formed *)
(* and the subprocess's exit status.                                       *)

Scenarios ==
    {r \in [hasWait : BOOLEAN, total : 0..MaxChunks, docLen : 1..MaxChunks,
            wellFormed : BOOLEAN, exitCode : {0, 1}] :
        r.docLen > r.total => ~r.wellFormed}

NoReturn == [err |-> "pending", result |-> "empty"]

\* cmd.Run: cmd.Start.  A failed Start closes both ends of the pipe.
CallerRun ==
    /\ callerPc = "run"
    /\ \E startOk \in BOOLEAN :
          IF startOk
          THEN /\ procPc' = "running"
               /\ callerPc' = "wait"
               /\ UNCHANGED <<readClosed, ret>>
          ELSE /\ readClosed' = TRUE
               /\ callerPc' = "returned"
               /\ ret' = [err |-> "run", result |-> "empty"]
               /\ UNCHANGED procPc
    /\ UNCHANGED <<run, written, pipe, decPc, consumed, decodeError, result>>
    /\ UNCHANGED dataVars

\* cmd.Run: cmd.Wait returns once the subprocess has exited, and closes the
\* read end of the pipe whatever is still buffered in it.
CallerWait ==
    /\ callerPc = "wait"
    /\ procPc = "exited"
    /\ readClosed' = TRUE
    /\ pipe' = 0
    /\ IF run.exitCode # 0
       THEN /\ callerPc' = "returned"
            /\ ret' = [err |-> "run", result |-> "empty"]
       ELSE /\ callerPc' = IF run.hasWait THEN "wgwait" ELSE "check"
            /\ UNCHANGED ret
    /\ UNCHANGED <<run, procPc, written, decPc, consumed, decodeError, result>>
    /\ UNCHANGED dataVars

\* wg.Wait()
CallerWgWait ==
    /\ callerPc = "wgwait"
    /\ decPc = "done"
    /\ callerPc' = "check"
    /\ UNCHANGED <<run, procPc, written, pipe, readClosed, decPc, consumed,
                   decodeError, result, ret>>
    /\ UNCHANGED dataVars

\* if decodeError != nil { return error }; return result, nil
CallerCheck ==
    /\ callerPc = "check"
    /\ ret' = IF decodeError # "nil"
              THEN [err |-> "decode", result |-> "empty"]
              ELSE [err |-> "nil", result |-> result]
    /\ callerPc' = "returned"
    /\ UNCHANGED <<run, procPc, written, pipe, readClosed, decPc, consumed,
                   decodeError, result>>
    /\ UNCHANGED dataVars

\* kscreen-doctor writes one chunk; it blocks while the pipe is full.
ProcWrite ==
    /\ procPc = "running"
    /\ ~readClosed
    /\ written < run.total
    /\ pipe < PipeCap
    /\ written' = written + 1
    /\ pipe' = pipe + 1
    /\ UNCHANGED <<run, procPc, readClosed, decPc, consumed, decodeError,
                   result, callerPc, ret>>
    /\ UNCHANGED dataVars

ProcExit ==
    /\ procPc = "running"
    /\ written = run.total
    /\ procPc' = "exited"
    /\ UNCHANGED <<run, written, pipe, readClosed, decPc, consumed,
                   decodeError, result, callerPc, ret>>
    /\ UNCHANGED dataVars

\* One Read of json.NewDecoder(output).Decode(&result): an error on a closed
\* pipe, a chunk, or the end of the stream.  Decode reads no further than
\* the end of the value or the first syntax error.
DecRead ==
    /\ decPc = "decoding"
    /\ readClosed \/ pipe > 0 \/ procPc = "exited"
    /\ IF readClosed
       THEN /\ decodeError' = "closed"
            /\ decPc' = "assigned"
            /\ UNCHANGED <<pipe, consumed, result>>
       ELSE IF pipe > 0
       THEN /\ pipe' = pipe - 1
            /\ consumed' = consumed + 1
            /\ IF consumed + 1 < run.docLen
               THEN UNCHANGED <<decPc, decodeError, result>>
               ELSE IF run.wellFormed
               THEN /\ decPc' = "unmarshalling"
                    /\ result' = "partial"
                    /\ UNCHANGED decodeError
               ELSE /\ decPc' = "assigned"
                    /\ decodeError' = "syntax"
                    /\ UNCHANGED result
       ELSE /\ decodeError' = "eof"
            /\ decPc' = "assigned"
            /\ UNCHANGED <<pipe, consumed, result>>
    /\ UNCHANGED <<run, procPc, written, readClosed, callerPc, ret>>
    /\ UNCHANGED dataVars

\* Decode has filled result and returns nil, which is stored in decodeError.
DecUnmarshalled ==
    /\ decPc = "unmarshalling"
    /\ result' = "inventory"
    /\ decodeError' = "nil"
    /\ decPc' = "assigned"
    /\ UNCHANGED <<run, procPc, written, pipe, readClosed, consumed,
                   callerPc, ret>>
    /\ UNCHANGED dataVars

\* defer wg.Done()
DecDone ==
    /\ decPc = "assigned"
    /\ decPc' = "done"
    /\ UNCHANGED <<run, procPc, written, pipe, readClosed, consumed,
                   decodeError, result, callerPc, ret>>
    /\ UNCHANGED dataVars

----------------------------------------------------------------------------
(* Inputs.                                                                 *)

NamePool == <<"A", "B", "C", "D", "E">>
ModeNamePool == <<"m1", "m2", "m3", "m4", "m5">>
OutputNames == {NamePool[i] : i \in 1..MaxOutputs}
MissingName == "X"

SizeFHD == [height |-> 1080, width |-> 1920]
SizeQHD == [height |-> 1440, width |-> 2560]
Sizes == {SizeFHD, SizeQHD}

\* 59.5, 60, 61 and 75 Hz
SelectRates == {119, 120, 122, 150}

Mode(i, rate, size) ==
    [id |-> i, name |-> ModeNamePool[i], refreshRate |-> rate, size |-> size]

Origin == [x |-> 0, y |-> 0]
RightOf(i) == [x |-> 1920 * i, y |-> 0]
ScaleOne == 10 ^ ScaleDigits
ScaleFiveQuarters == (5 * (10 ^ ScaleDigits)) \div 4

OutputOf(name, enabled, priority, modes, currentModeId, size, pos, scale) ==
    [name |-> name, currentModeId |-> currentModeId, enabled |-> enabled,
     size |-> size, pos |-> pos, scale |-> scale, modes |-> modes,
     priority |-> priority]

Present(outputs) ==
    LET IsPresent(o) == o.modes # <<>> IN SelectSeq(outputs, IsPresent)

\* Apply: any subset of the output names (Present drops the names given no
\* mode list), each output offering 60 Hz at one size or at both; profiles of up to MaxScreens screens that name a live
\* output or a missing one, at either size.
ApplyModeLists ==
    {<<Mode(1, 120, SizeFHD)>>, <<Mode(1, 120, SizeFHD), Mode(2, 120, SizeQHD)>>}

ApplyInventories ==
    {Present([i \in 1..MaxOutputs |->
                 OutputOf(NamePool[i], TRUE, i, f[i], 1, SizeFHD,
                          RightOf(i - 1), ScaleOne)]) :
        f \in [1..MaxOutputs -> ApplyModeLists \cup {<<>>}]}

ApplyScreens ==
    {[name |-> n, size |-> sz, position |-> RightOf(1), refreshRate |-> 120,
      scale |-> ScaleFiveQuarters] : n \in OutputNames \cup {MissingName}, sz \in Sizes}

ApplyFiles ==
    {Marshal([screens |-> s]) : s \in SeqsUpTo(ApplyScreens, MaxScreens)}
    \cup {NoFile}

\* Extract: up to MaxOutputs outputs, each enabled or not, of priority 1 or
\* 2, whose current mode is the only one, is not in the list, or is the
\* second of two.
ExtractKinds == {"found", "notfound", "second"}

ExtractModes(kind) ==
    IF kind \in {"found", "notfound"} THEN <<Mode(1, 120, SizeFHD)>>
    ELSE <<Mode(1, 119, SizeFHD), Mode(2, 150, SizeFHD)>>

ExtractCurrent(kind) ==
    CASE kind = "found" -> 1
      [] kind = "notfound" -> 0
      [] kind = "second" -> 2

ExtractInventories ==
    {[i \in DOMAIN f |->
         OutputOf(NamePool[i], f[i][1], f[i][2], ExtractModes(f[i][3]),
                  ExtractCurrent(f[i][3]), SizeFHD, RightOf(i - 1), ScaleOne)] :
        f \in SeqsUpTo(BOOLEAN \X {1, 2} \X ExtractKinds, MaxOutputs)}

\* Select: output A with up to MaxModes modes of any rate and size, its
\* current mode among them and its size that mode's size, alone or beside
\* an output B; profiles of one screen for A.
SelectModeLists ==
    {[i \in DOMAIN f |-> Mode(i, f[i][1], f[i][2])] :
        f \in SeqsUpTo(SelectRates \X Sizes, MaxModes) \ {<<>>}}

SelectOutputs ==
    UNION {{OutputOf("A", TRUE, 1, ml, c, ml[c].size, Origin, ScaleFiveQuarters) :
               c \in DOMAIN ml} : ml \in SelectModeLists}

SelectInventories == {<<a>> : a \in {o \in SelectOutputs : o.currentModeId = 1}}

RoundNeighbours ==
    {OutputOf("B", TRUE, 2, <<Mode(1, 120, SizeFHD)>>, 1, SizeFHD, RightOf(1), ScaleOne),
     OutputOf("B", FALSE, 2, <<Mode(1, 120, SizeFHD)>>, 0, SizeFHD, Origin, ScaleOne)}

\* Round: the same, each mode of A listed once (no two modes of the same
\* size and rate).
DistinctTimings(o) ==
    \A i, j \in DOMAIN o.modes :
        (/\ o.modes[i].size = o.modes[j].size
         /\ o.modes[i].refreshRate = o.modes[j].refreshRate) => i = j

RoundOutputs == {o \in SelectOutputs : DistinctTimings(o)}

RoundInventories ==
    {<<a>> : a \in RoundOutputs}
    \cup {<<a, b>> : a \in RoundOutputs, b \in RoundNeighbours}

SelectFiles ==
    {Marshal([screens |-> <<[name |-> "A", size |-> sz, position |-> Origin,
                            refreshRate |-> r, scale |-> ScaleOne]>>]) :
        sz \in Sizes, r \in SelectRates}

----------------------------------------------------------------------------
(* Specifications.                                                         *)

DataIdle ==
    /\ cmd = "none"
    /\ err = NoError
    /\ args = <<>>
    /\ applied = FALSE

QueryStart ==
    /\ procPc = "notstarted"
    /\ written = 0
    /\ pipe = 0
    /\ readClosed = FALSE
    /\ decPc = "decoding"
    /\ consumed = 0
    /\ decodeError = "nil"
    /\ result = "empty"
    /\ callerPc = "run"
    /\ ret = NoReturn

QueryIdle ==
    /\ run = [hasWait |-> TRUE, total |-> 1, docLen |-> 1, wellFormed |-> TRUE,
              exitCode |-> 0]
    /\ QueryStart

\* load of any profile against any inventory
Init ==
    /\ inventory \in ApplyInventories
    /\ file \in ApplyFiles
    /\ DataIdle
    /\ QueryIdle

Next == LoadRun

Spec == Init /\ [][Next]_vars

\* load of a one-screen profile against an output with many modes
InitSelect ==
    /\ inventory \in SelectInventories
    /\ file \in SelectFiles
    /\ DataIdle
    /\ QueryIdle

SpecSelect == InitSelect /\ [][Next]_vars

\* save of any inventory
InitExtract ==
    /\ inventory \in ExtractInventories
    /\ file = NoFile
    /\ DataIdle
    /\ QueryIdle

NextExtract == SaveRun

SpecExtract == InitExtract /\ [][NextExtract]_vars

\* save, then load against the same inventory
InitRound ==
    /\ inventory \in RoundInventories
    /\ file = NoFile
    /\ DataIdle
    /\ QueryIdle

NextRound == SaveRun \/ LoadRun

SpecRound == InitRound /\ [][NextRound]_vars

\* one call of currentScreenSetup; the Go scheduler and the kernel run every
\* goroutine and process that can take a step
InitQueryAny ==
    /\ inventory = <<>>
    /\ file = NoFile
    /\ DataIdle
    /\ run \in Scenarios
    /\ QueryStart

\* the function as it stands beside LoadProfileCmd, with wg.Wait()
InitQuery == InitQueryAny /\ run.hasWait

\* the earlier variants of the function, without wg.Wait()
InitQueryNoWait == InitQueryAny /\ ~run.hasWait

NextQuery ==
    \/ CallerRun
    \/ CallerWait
    \/ CallerWgWait
    \/ CallerCheck
    \/ ProcWrite
    \/ ProcExit
    \/ DecRead
    \/ DecUnmarshalled
    \/ DecDone

QueryFairness ==
    /\ WF_vars(CallerRun)
    /\ WF_vars(CallerWait)
    /\ WF_vars(CallerWgWait)
    /\ WF_vars(CallerCheck)
    /\ WF_vars(ProcWrite)
    /\ WF_vars(ProcExit)
    /\ WF_vars(DecRead)
    /\ WF_vars(DecUnmarshalled)
    /\ WF_vars(DecDone)

SpecQuery == InitQuery /\ [][NextQuery]_vars /\ QueryFairness

SpecQueryNoWait == InitQueryNoWait /\ [][NextQuery]_vars /\ QueryFairness

----------------------------------------------------------------------------
(* Vocabulary of the properties.                                           *)

Screens == Unmarshal(file).screens

LiveNames == {inventory[i].name : i \in DOMAIN inventory}

LiveOutput(name) == CHOOSE o \in Range(inventory) : o.name = name

NamedByProfile == {Screens[i].name : i \in DOMAIN Screens}

DirectiveOutputs(kind) ==
    {args[i][2] : i \in {j \in DOMAIN args : args[j][3] = kind}}

DisableCount == Cardinality({i \in DOMAIN args : args[i][3] = "disable"})

\* the k-th group of directives after the disable directives
Group(k) == [n \in 1..4 |-> args[DisableCount + 4 * (k - 1) + n]]

Unresolvable(screen) ==
    \/ screen.name \notin LiveNames
    \/ \A m \in Range(LiveOutput(screen.name).modes) : m.size # screen.size

\* the nearest rate among the modes of the screen's size, the first of them
\* in the output's list
NearestMode(screen) ==
    LET modes == LiveOutput(screen.name).modes
        fit == {i \in DOMAIN modes : modes[i].size = screen.size}
        dist(i) == Abs(modes[i].refreshRate - screen.refreshRate)
        nearest == {i \in fit : \A j \in fit : dist(i) <= dist(j)}
    IN modes[SetMin(nearest)]

\* stable ascending order by priority, stated by rank
Rank(i) ==
    1 + Cardinality({j \in DOMAIN inventory :
                        \/ inventory[j].priority < inventory[i].priority
                        \/ /\ inventory[j].priority = inventory[i].priority
                           /\ j < i})

ByPriority ==
    [k \in DOMAIN inventory |->
        inventory[CHOOSE i \in DOMAIN inventory : Rank(i) = k]]

HasCurrentMode(o) == \E m \in Range(o.modes) : m.id = o.currentModeId

CurrentMode(o) == CHOOSE m \in Range(o.modes) : m.id = o.currentModeId

ScreenOf(o) ==
    [name |-> o.name, size |-> o.size, position |-> o.pos, scale |-> o.scale,
     refreshRate |-> CurrentMode(o).refreshRate]

EnabledByPriority ==
    LET IsEnabled(o) == o.enabled IN SelectSeq(ByPriority, IsEnabled)

FailingByPriority ==
    LET Fails(o) == o.enabled /\ ~HasCurrentMode(o) IN SelectSeq(ByPriority, Fails)

----------------------------------------------------------------------------
(* C1: whenever load hands directives to kscreen-doctor, the outputs it    *)
(* disables are exactly the live outputs no Screen of the profile names,   *)
(* the outputs it enables and configures (mode, position, scale) are       *)
(* exactly the outputs the Screens name, every live output has a           *)
(* directive, and none is both disabled and enabled.                       *)
C1_DisableSetExact ==
    applied =>
        /\ DirectiveOutputs("disable") = LiveNames \ NamedByProfile
        /\ \A kind \in {"enable", "mode", "position", "scale"} :
              DirectiveOutputs(kind) = NamedByProfile
        /\ LiveNames \subseteq
              DirectiveOutputs("disable") \cup DirectiveOutputs("enable")
        /\ DirectiveOutputs("disable") \cap DirectiveOutputs("enable") = {}

\* outputs {A, B, C}, a profile naming only A: B and C are disabled
C1_Witness ==
    /\ applied
    /\ LiveNames = {"A", "B", "C"}
    /\ NamedByProfile = {"A"}
    /\ DirectiveOutputs("disable") = {"B", "C"}
    /\ DirectiveOutputs("enable") = {"A"}

(* C2: for every Screen, the mode in its set-mode directive is, among the  *)
(* output's modes of the Screen's size, the one nearest in refresh rate,   *)
(* and the first in the output's mode list among those equally near.       *)
C2_NearestModeSelected ==
    applied =>
        \A k \in DOMAIN Screens :
            Group(k)[2] = <<"output", Screens[k].name, "mode",
                            NearestMode(Screens[k]).name>>

(* C3: if any Screen names an output that is not live, or has a size that  *)
(* no mode of its live output has, load returns an error and hands no      *)
(* directive to kscreen-doctor.                                            *)
C3_AllOrNothing ==
    (/\ cmd = "load"
     /\ file # NoFile
     /\ \E i \in DOMAIN Screens : Unresolvable(Screens[i]))
    => /\ err.kind \in {"query", "missing", "nomode"}
       /\ ~applied
       /\ args = <<>>

\* the first Screen resolves, the second names a missing output
C3_Witness ==
    /\ cmd = "load"
    /\ file # NoFile
    /\ Len(Screens) = 2
    /\ ~Unresolvable(Screens[1])
    /\ Screens[2].name = MissingName
    /\ err = Error("missing", MissingName)
    /\ ~applied
    /\ args = <<>>

(* C4: in the directives load hands to kscreen-doctor every disable        *)
(* directive comes before every other directive, and the groups enable,    *)
(* mode, position, scale follow in the order of the profile's Screens.     *)
C4_DirectiveOrder ==
    applied =>
        /\ \A i, j \in DOMAIN args :
              (i < j /\ args[j][3] = "disable") => args[i][3] = "disable"
        /\ Len(args) = DisableCount + 4 * Len(Screens)
        /\ \A k \in DOMAIN Screens :
              /\ \A n \in 1..4 : Group(k)[n][2] = Screens[k].name
              /\ <<Group(k)[1][3], Group(k)[2][3], Group(k)[3][3], Group(k)[4][3]>>
                     = <<"enable", "mode", "position", "scale">>

\* a disabled output, and two Screens in the reverse of the inventory's order
C4_Witness ==
    /\ applied
    /\ DisableCount >= 1
    /\ Len(Screens) = 2
    /\ Screens[1].name = "B"
    /\ Screens[2].name = "A"
    /\ args[DisableCount + 1] = <<"output", "B", "enable">>

C6_AnyOutput ==
    /\ (/\ cmd = "save"
        /\ err.kind # "query"
        /\ \E o \in Range(inventory) : ~HasCurrentMode(o))
       => /\ err.kind = "integrity"
          /\ \E o \in Range(inventory) : ~HasCurrentMode(o) /\ err.output = o.name
          /\ file = NoFile
    /\ file # NoFile => \A i \in DOMAIN Screens : Screens[i].refreshRate # 0

(* C6, amended: if any ENABLED output's current-mode identifier matches no *)
(* mode of its list, save fails with an integrity error naming the first   *)
(* such output in priority order and writes no profile; every Screen of a  *)
(* written profile has a nonzero refresh rate.                             *)
C6_EnabledOutput ==
    /\ (/\ cmd = "save"
        /\ err.kind # "query"
        /\ FailingByPriority # <<>>)
       => /\ err = Error("integrity", FailingByPriority[1].name)
          /\ file = NoFile
    /\ file # NoFile => \A i \in DOMAIN Screens : Screens[i].refreshRate # 0

\* the failing output comes after an output that was projected
C6_Witness ==
    /\ cmd = "save"
    /\ Len(EnabledByPriority) >= 2
    /\ HasCurrentMode(EnabledByPriority[1])
    /\ ~HasCurrentMode(EnabledByPriority[2])
    /\ err = Error("integrity", EnabledByPriority[2].name)
    /\ file = NoFile

(* C7: loading the profile that save wrote, against the same inventory,    *)
(* succeeds and is a no-op: it enables exactly the enabled outputs, each   *)
(* with its current mode, position and scale, and disables the others.     *)
C7_RoundTrip ==
    (cmd = "load" /\ file # NoFile /\ err.kind # "query")
    => /\ applied
       /\ DirectiveOutputs("enable") = {o.name : o \in {x \in Range(inventory) : x.enabled}}
       /\ DirectiveOutputs("disable") = {o.name : o \in {x \in Range(inventory) : ~x.enabled}}
       /\ \A o \in {x \in Range(inventory) : x.enabled} :
             /\ {args[i] : i \in {j \in DOMAIN args : args[j][2] = o.name}}
                    = {<<"output", o.name, "enable">>,
                       <<"output", o.name, "mode", CurrentMode(o).name>>,
                       <<"output", o.name, "position", FormatPosition(o.pos)>>,
                       <<"output", o.name, "scale", FormatScale(o.scale)>>}

(* C8: currentScreenSetup returns only after the subprocess has exited and *)
(* the decode goroutine has finished, on every return path, and reads      *)
(* decodeError and result only after the goroutine has finished.           *)
C8_ReturnsAfterBoth ==
    /\ callerPc = "returned" => (procPc # "running" /\ decPc = "done")
    /\ callerPc = "check" => decPc = "done"

\* the subprocess cannot write and the caller waits for it to exit
BlockedOnFullPipe ==
    /\ callerPc = "wait"
    /\ procPc = "running"
    /\ written < run.total
    /\ pipe = PipeCap

(* C9: the subprocess is never blocked for ever on a full pipe while the   *)
(* caller waits for its exit, and if the subprocess exits,                 *)
(* currentScreenSetup eventually returns.                                  *)
C9_NoPipeDeadlock ==
    /\ []<>(~BlockedOnFullPipe)
    /\ <>(procPc = "exited") => <>(callerPc = "returned")

(* C10: when the subprocess has written a complete well-formed inventory   *)
(* and exited with status zero, currentScreenSetup returns that inventory  *)
(* and no error.                                                           *)
C10_CompleteOutputDecoded ==
    (/\ callerPc = "returned"
     /\ procPc = "exited"
     /\ run.exitCode = 0
     /\ run.wellFormed)
    => ret = [err |-> "nil", result |-> "inventory"]

====
